---- MODULE Spec2Model ----
(***************************************************************************)
(* Model of package jsonobj (prashantv/pkg): Retain keeps the keys of a    *)
(* JSON object that a struct does not declare, so that they survive a      *)
(* decode -> mutate -> encode cycle.                                       *)
(*                                                                         *)
(*   Spec       one record: FromJSON / field assignment / ToJSON           *)
(*   SpecIgnore the same calls on the structs with a "-" tag               *)
(*   SpecOmit   ToJSON of the omitempty test structs (no retained state)   *)
(*   SpecConc   interleaved ToJSON calls on one record                     *)
(*   SpecValid  Retainable / MustRetainable over struct declarations       *)
(*                                                                         *)
(* JSON fragments (json.RawMessage, marshalled values) are JSON text.      *)
(* Go values are records tagged with their reflect.Kind.                   *)
(***************************************************************************)
EXTENDS Naturals, Sequences, FiniteSets, TLC

VARIABLES
    T,        \* the struct type of obj: its fields in declaration order
    raw,      \* Retain.raw: [isNil, kv]
    fields,   \* the struct's field values, by field index
    op,       \* the last call made
    err,      \* the error (or "nil") the last call returned
    doc,      \* data of the latest FromJSON call
    decErr,   \* the error the latest FromJSON call returned ("none": no call yet)
    fresh,    \* the record equalled its zero value when the latest FromJSON began
    mutated,  \* a field was assigned since the latest FromJSON
    out,      \* the document the last ToJSON returned
    pc,       \* SpecConc: where each ToJSON call stands
    all,      \* SpecConc: each call's local map `all`
    allRef,   \* SpecConc: the map each call's `all` refers to
    ret,      \* SpecConc: what each call returned
    obj,      \* SpecValid: the value passed to Retainable
    verr,     \* SpecValid: what Retainable returned
    vpanic    \* SpecValid: what MustRetainable panicked with

vars == << T, raw, fields, op, err, doc, decErr, fresh, mutated, out,
           pc, all, allRef, ret, obj, verr, vpanic >>

recVars == << T, raw, fields, op, err, doc, decErr, fresh, mutated, out >>
concVars == << pc, all, allRef, ret >>
validVars == << obj, verr, vpanic >>

----------------------------------------------------------------------------
(* Bounds *)

\* number of distinct non-empty strings a caller assigns to a string field
NumValues == 1
\* most fields in a struct declaration handed to Retainable
MaxFields == 2
\* number of concurrent ToJSON callers
NumProcs == 2

----------------------------------------------------------------------------
(* Strings *)

Char(s, i) == SubSeq(s, i, i)

UpperLetters == {"A", "B", "D", "H", "I", "L", "M", "N", "O", "S", "T"}

RECURSIVE SplitFrom(_, _, _)
SplitFrom(s, st, i) ==
    IF i > Len(s) THEN << SubSeq(s, st, Len(s)) >>
    ELSE IF Char(s, i) = "," THEN << SubSeq(s, st, i - 1) >> \o SplitFrom(s, i + 1, i + 1)
    ELSE SplitFrom(s, st, i + 1)

\* strings.Split(tagValue, ",")
Split(s) == SplitFrom(s, 1, 1)

Quote(s) == "\"" \o s \o "\""

----------------------------------------------------------------------------
(* Struct fields and json tags *)

\* a reflect.StructField: its name, the value of its json tag, its kind
Fld(n, tg, k) == [name |-> n, tag |-> tg, kind |-> k]

\* Page of the round-trip example
Page == << Fld("raw", "", "Retain"),
           Fld("Title", "title", "string"),
           Fld("Slug", "slug", "string") >>

\* S of the round-trip test
S == << Fld("raw", "", "Retain"), Fld("Name", "name,omitempty", "string") >>

\* Page with omitempty on its second field
Post == << Fld("raw", "", "Retain"),
           Fld("Title", "title", "string"),
           Fld("Slug", "slug,omitempty", "string") >>

\* the structs of TestRetain_ToJSON_Ignore
Ignore == << Fld("IgnoreField", "-", "string") >>
DashName == << Fld("DashName", "-,", "string") >>
DashOmitEmpty == << Fld("DashOmitEmpty", "-,omitempty", "string") >>

\* the structs of TestRetain_ToJSON_OmitEmpty
Primitives == << Fld("raw", "", "Retain"),
                 Fld("Str", ",omitempty", "string"),
                 Fld("Int", ",omitempty", "int"),
                 Fld("Bool", ",omitempty", "bool") >>
List == << Fld("List", ",omitempty", "[]string") >>
MapStruct == << Fld("Map", ",omitempty", "map[string]string") >>
Arrays == << Fld("Arr0", ",omitempty", "[0]int"), Fld("Arr1", ",omitempty", "[1]int") >>

\* a struct-typed field with omitempty, and fields of each kind without it
Nested == << Fld("Inner", ",omitempty", "struct") >>
Plain == << Fld("Str", "", "string"), Fld("List", "", "[]string"),
            Fld("Inner", "inner", "struct") >>

RecordTypes == {Page, S, Post, Ignore, DashName, DashOmitEmpty}

OmitTypes == {Primitives, List, MapStruct, Arrays, Nested, Plain}

\* the field declarations of the structs of TestRetainable, and two with a
\* third tag component
FieldDecls ==
    { Fld("base", "", "struct"),
      Fld("Name", "", "string"),
      Fld("Name2", "name", "string"),
      Fld("Name1", "name", "string"),
      Fld("OtherName", "Name", "string"),
      Fld("Age", ",omitempty", "int"),
      Fld("Age", ",string", "int"),
      Fld("Ignored", "-", "func()"),
      Fld("Dash", "-,", "string"),
      Fld("InlineStruct", ",inline", "struct"),
      Fld("Opt", "name,omitempty,string", "string"),
      Fld("Odd", "odd,,omitempty", "string") }

\* the json tag values of all these declarations
TagValues ==
    UNION {{rt[f].tag : f \in DOMAIN rt} : rt \in RecordTypes \cup OmitTypes}
      \cup {d.tag : d \in FieldDecls}

\* strings.Split(tagValue, ","), computed once for each tag value
SplitTag == [tg \in TagValues |-> Split(tg)]

\* reflect.StructField.IsExported: the name starts with an upper-case letter
IsExported(ft) == Char(ft.name, 1) \in UpperLetters

\* jsonTag{tag: strings.Split(tagValue, ","), field: ft}
jsonTag(ft) == [tag |-> SplitTag[ft.tag], field |-> ft]

name(t) == IF t.tag[1] # "" THEN t.tag[1] ELSE t.field.name

omitEmpty(t) == IF Len(t.tag) < 2 THEN FALSE ELSE t.tag[2] = "omitempty"

\* The indices forJSONField hands to fn, in order: exported fields whose tag
\* is not exactly "-".
RECURSIVE VisitedFrom(_, _)
VisitedFrom(rt, f) ==
    IF f > Len(rt) THEN << >>
    ELSE IF ~IsExported(rt[f]) THEN VisitedFrom(rt, f + 1)
    ELSE IF rt[f].tag = "-" THEN VisitedFrom(rt, f + 1)
    ELSE << f >> \o VisitedFrom(rt, f + 1)

\* forJSONField skipping every field whose tag names it "-", with or
\* without a modifier
RECURSIVE VisitedNoDashFrom(_, _)
VisitedNoDashFrom(rt, f) ==
    IF f > Len(rt) THEN << >>
    ELSE IF ~IsExported(rt[f]) THEN VisitedNoDashFrom(rt, f + 1)
    ELSE IF SplitTag[rt[f].tag][1] = "-" THEN VisitedNoDashFrom(rt, f + 1)
    ELSE << f >> \o VisitedNoDashFrom(rt, f + 1)

forJSONFieldNoDash(rt) == VisitedNoDashFrom(rt, 1)

forJSONField(rt) == VisitedFrom(rt, 1)

Range(s) == {s[i] : i \in DOMAIN s}

\* the canonical names of the declared fields of rt
DeclaredNames(rt) == {name(jsonTag(rt[f])) : f \in Range(forJSONField(rt))}

----------------------------------------------------------------------------
(* Go values, tagged with their reflect.Kind *)

Str(x) == [k |-> "string", s |-> x]
Int(x) == [k |-> "int", n |-> x]
Bool(x) == [k |-> "bool", b |-> x]
Slice(nilp, xs) == [k |-> "slice", isnil |-> nilp, elems |-> xs]
Map(nilp, kvs) == [k |-> "map", isnil |-> nilp, entries |-> kvs]
Array(xs) == [k |-> "array", arr |-> xs]
Struct(x) == [k |-> "struct", a |-> x]
RetainField == [k |-> "retain"]

\* the zero value of a field of the given Go type
ZeroValue(ty) ==
    CASE ty = "string" -> Str("")
      [] ty = "int" -> Int(0)
      [] ty = "bool" -> Bool(FALSE)
      [] ty = "[]string" -> Slice(TRUE, << >>)
      [] ty = "map[string]string" -> Map(TRUE, {})
      [] ty = "[0]int" -> Array(<< >>)
      [] ty = "[1]int" -> Array(<< 0 >>)
      [] ty = "struct" -> Struct(0)
      [] ty = "Retain" -> RetainField

\* reflect.Value.Len
VLen(v) ==
    CASE v.k = "array" -> Len(v.arr)
      [] v.k = "slice" -> Len(v.elems)
      [] v.k = "map" -> Cardinality(v.entries)

\* reflect.Value.IsZero
IsZero(v) ==
    CASE v.k = "string" -> v.s = ""
      [] v.k = "int" -> v.n = 0
      [] v.k = "bool" -> ~v.b
      [] v.k = "slice" -> v.isnil
      [] v.k = "map" -> v.isnil
      [] v.k = "array" -> \A i \in DOMAIN v.arr : v.arr[i] = 0
      [] v.k = "struct" -> v.a = 0

isZero(v) ==
    IF v.k \in {"array", "map", "slice"} THEN VLen(v) = 0 ELSE IsZero(v)

----------------------------------------------------------------------------
(* The codec: encoding/json as the package calls it *)

Digits == << "0", "1", "2", "3", "4", "5", "6", "7", "8", "9" >>

\* strconv of a small non-negative integer
Itoa(n) == Digits[n + 1]

IsNumberText(x) == \E i \in DOMAIN Digits : Digits[i] = x

Atoi(x) == (CHOOSE i \in DOMAIN Digits : Digits[i] = x) - 1

RECURSIVE JoinStrs(_)
JoinStrs(xs) ==
    IF xs = << >> THEN ""
    ELSE IF Len(xs) = 1 THEN Quote(xs[1])
    ELSE Quote(xs[1]) \o "," \o JoinStrs(Tail(xs))

RECURSIVE JoinInts(_)
JoinInts(xs) ==
    IF xs = << >> THEN ""
    ELSE IF Len(xs) = 1 THEN Itoa(xs[1])
    ELSE Itoa(xs[1]) \o "," \o JoinInts(Tail(xs))

\* the members "k":"v" of a map value
RECURSIVE JoinEntries(_)
JoinEntries(kvs) ==
    IF kvs = {} THEN ""
    ELSE LET e == CHOOSE x \in kvs : \A y \in kvs : x = y \/ x[1] # y[1]
             m == Quote(e[1]) \o ":" \o Quote(e[2])
         IN  IF kvs = {e} THEN m ELSE m \o "," \o JoinEntries(kvs \ {e})

\* json.Marshal of one Go value
MarshalValue(v) ==
    CASE v.k = "string" -> Quote(v.s)
      [] v.k = "int" -> Itoa(v.n)
      [] v.k = "bool" -> IF v.b THEN "true" ELSE "false"
      [] v.k = "slice" -> IF v.isnil THEN "null" ELSE "[" \o JoinStrs(v.elems) \o "]"
      [] v.k = "map" -> IF v.isnil THEN "null" ELSE "{" \o JoinEntries(v.entries) \o "}"
      [] v.k = "array" -> "[" \o JoinInts(v.arr) \o "]"
      [] v.k = "struct" -> "{\"A\":" \o Itoa(v.a) \o "}"

\* json.Unmarshal into a copy of the field: the field keeps its value
UnmarshalFieldIntoCopy(text, v) ==
    IF text = "null" \/ (v.k = "string" /\ Char(text, 1) = "\"")
    THEN [err |-> "nil", val |-> v]
    ELSE [err |-> "type", val |-> v]

\* json.Unmarshal(fieldJSON, v.Addr().Interface()) for a scalar field:
\* null leaves the value alone, a fragment of the wrong JSON type is an
\* UnmarshalTypeError and leaves the value alone too.
UnmarshalField(text, v) ==
    IF text = "null" THEN [err |-> "nil", val |-> v]
    ELSE IF v.k = "string" THEN
        IF Char(text, 1) = "\""
        THEN [err |-> "nil", val |-> Str(SubSeq(text, 2, Len(text) - 1))]
        ELSE [err |-> "type", val |-> v]
    ELSE IF v.k = "int" THEN
        IF IsNumberText(text)
        THEN [err |-> "nil", val |-> Int(Atoi(text))]
        ELSE [err |-> "type", val |-> v]
    ELSE [err |-> "type", val |-> v]

EmptyKV == [k \in {} |-> ""]

\* a nil map[string]json.RawMessage
NilMap == [isNil |-> TRUE, kv |-> EmptyKV]

MkMap(kv) == [isNil |-> FALSE, kv |-> kv]

\* data as json.Unmarshal sees it: an object, the literal null, another
\* JSON value (true), or text that is not JSON
ObjectDoc(kv) == [form |-> "object", kv |-> kv]
NullDoc == [form |-> "null", kv |-> EmptyKV]
BoolDoc == [form |-> "bool", kv |-> EmptyKV]
InvalidDoc == [form |-> "invalid", kv |-> EmptyKV]
NoDoc == [form |-> "none", kv |-> EmptyKV]

\* json.Unmarshal(data, &r.raw): text that is not JSON and a non-object
\* value are errors that leave the map alone; null sets the map to nil; an
\* object is stored into the map already there (a nil map is allocated), so
\* the entries the map held remain unless the object has the same key.
UnmarshalMap(data, m) ==
    CASE data.form = "invalid" -> [err |-> "syntax", raw |-> m]
      [] data.form = "bool" -> [err |-> "type", raw |-> m]
      [] data.form = "null" -> [err |-> "nil", raw |-> NilMap]
      [] data.form = "object" ->
            [err |-> "nil",
             raw |-> MkMap([k \in DOMAIN m.kv \cup DOMAIN data.kv |->
                              IF k \in DOMAIN data.kv THEN data.kv[k] ELSE m.kv[k]])]

\* delete(m, key)
Delete(m, key) ==
    IF m.isNil THEN m ELSE MkMap([k \in DOMAIN m.kv \ {key} |-> m.kv[k]])

----------------------------------------------------------------------------
(* The values handed to FromJSON and ToJSON as obj *)

\* reflect.ValueOf(obj): whether obj is a pointer, and the kind of what it
\* is or points to (the Elem of a nil pointer has kind Invalid)
Handle(p, k) == [ptr |-> p, elem |-> k]

PtrToStruct == Handle(TRUE, "struct")
StructValue == Handle(FALSE, "struct")
NilPtr == Handle(TRUE, "invalid")
StringValue == Handle(FALSE, "string")
PtrToString == Handle(TRUE, "string")

ensureStruct(h, requirePtr) ==
    IF h.ptr THEN h.elem = "struct"
    ELSE IF requirePtr THEN FALSE
    ELSE h.elem = "struct"

----------------------------------------------------------------------------
(* Retain.FromJSON *)

\* The callback of FromJSON over the fields forJSONField visits, stopping
\* at the first error: st is [err, raw, fields].
RECURSIVE FromJSONFields(_, _, _)
FromJSONFields(rt, visit, st) ==
    IF visit = << >> THEN st
    ELSE LET f == Head(visit)
             key == name(jsonTag(rt[f]))
         IN  IF key \notin DOMAIN st.raw.kv
             THEN FromJSONFields(rt, Tail(visit), st)
             ELSE LET u == UnmarshalField(st.raw.kv[key], st.fields[f])
                      nx == [err |-> u.err,
                             raw |-> Delete(st.raw, key),
                             fields |-> [st.fields EXCEPT ![f] = u.val]]
                  IN  IF u.err # "nil" THEN nx
                      ELSE FromJSONFields(rt, Tail(visit), nx)

\* if len(r.raw) == 0 { r.raw = nil }
NilIfEmpty(m) == IF DOMAIN m.kv = {} THEN NilMap ELSE m

\* r.FromJSON(data, obj): [err, raw, fields] when it returns
FromJSONResult(rt, data, h, r, fv) ==
    IF ~ensureStruct(h, TRUE)
    THEN [err |-> "shape", raw |-> r, fields |-> fv]
    ELSE LET u == UnmarshalMap(data, r)
         IN  IF u.err # "nil"
             THEN [err |-> u.err, raw |-> u.raw, fields |-> fv]
             ELSE LET st == FromJSONFields(rt, forJSONField(rt),
                                           [err |-> "nil", raw |-> u.raw, fields |-> fv])
                  IN  IF st.err # "nil" THEN st
                      ELSE [st EXCEPT !.raw = NilIfEmpty(st.raw)]

----------------------------------------------------------------------------
(* Retain.ToJSON *)

\* all := make(map[string]any, len(r.raw)); for k, v := range r.raw { all[k] = v }
FromRetained(text) == [from |-> "retained", rawmsg |-> text]
FromField(v) == [from |-> "field", val |-> v]

\* all starts empty: the range over r.raw is missing
CopyOfNothing(r) == [k \in {} |-> FromRetained("")]

CopyOf(r) == [k \in DOMAIN r.kv |-> FromRetained(r.kv[k])]

\* all[key] = x
Put(m, key, x) == [k \in DOMAIN m \cup {key} |-> IF k = key THEN x ELSE m[k]]

\* the callback of ToJSON for field f
ToJSONField(rt, f, fv, m) ==
    LET t == jsonTag(rt[f])
    IN  IF omitEmpty(t) /\ isZero(fv[f]) THEN m
        ELSE Put(m, name(t), FromField(fv[f]))

RECURSIVE ToJSONFields(_, _, _, _)
ToJSONFields(rt, visit, fv, m) ==
    IF visit = << >> THEN m
    ELSE ToJSONFields(rt, Tail(visit), fv, ToJSONField(rt, Head(visit), fv, m))

\* json.Marshal(all): a RawMessage is emitted as it is, a field value is
\* marshalled; each member keeps where it came from
MarshalAll(m) ==
    [k \in DOMAIN m |->
        [from |-> m[k].from,
         json |-> IF m[k].from = "retained" THEN m[k].rawmsg
                  ELSE MarshalValue(m[k].val)]]

NoOut == [k \in {} |-> [from |-> "", json |-> ""]]

\* r.ToJSON(obj): [err, out] when it returns
ToJSONResult(rt, h, r, fv) ==
    IF ~ensureStruct(h, FALSE)
    THEN [err |-> "shape", out |-> NoOut]
    ELSE [err |-> "nil",
          out |-> MarshalAll(ToJSONFields(rt, forJSONField(rt), fv, CopyOf(r)))]

----------------------------------------------------------------------------
(* Field values *)

ZeroFields(rt) == [f \in DOMAIN rt |-> ZeroValue(rt[f].kind)]

NewStrings == << "b", "c", "d" >>

\* the values a caller assigns to a field of the given Go type
FieldValues(ty) ==
    CASE ty = "string" -> {Str("")} \cup {Str(NewStrings[i]) : i \in 1..NumValues}
      [] ty = "int" -> {Int(0), Int(1), Int(2)}
      [] ty = "bool" -> {Bool(FALSE), Bool(TRUE)}
      [] ty = "[]string" -> {Slice(TRUE, << >>), Slice(FALSE, << >>),
                             Slice(FALSE, << "", "a", "b" >>)}
      [] ty = "map[string]string" -> {Map(TRUE, {}), Map(FALSE, {}),
                                      Map(FALSE, {<< "foo", "bar" >>})}
      [] ty = "[0]int" -> {Array(<< >>)}
      [] ty = "[1]int" -> {Array(<< 0 >>), Array(<< 1 >>)}
      [] ty = "struct" -> {Struct(0), Struct(1)}
      [] ty = "Retain" -> {RetainField}

----------------------------------------------------------------------------
(* Documents *)

\* a key that no struct declares
ExtraKeys == {"icon"}

\* the Go names of the exported fields tagged "-"
IgnoredNames(rt) ==
    {rt[f].name : f \in {g \in DOMAIN rt : IsExported(rt[g]) /\ rt[g].tag = "-"}}

UnknownKeys(rt) == ExtraKeys \cup (IgnoredNames(rt) \ DeclaredNames(rt))

\* the fragments a document holds under a declared key, under another key
DeclVals == {"\"a\"", "\"\"", "1", "null"}
ExtraVals == {"\"email\"", "1"}

KVs(rt) ==
    UNION {[ks -> DeclVals \cup ExtraVals] :
             ks \in SUBSET (DeclaredNames(rt) \cup UnknownKeys(rt))}

Docs(rt) ==
    {ObjectDoc(kv) : kv \in {m \in KVs(rt) :
                               \A k \in DOMAIN m :
                                   IF k \in DeclaredNames(rt) THEN m[k] \in DeclVals
                                   ELSE m[k] \in ExtraVals}}
      \cup {NullDoc, BoolDoc, InvalidDoc}

\* Docs, computed once for each record type
DocsOf == [rt \in RecordTypes |-> Docs(rt)]

Handles == {PtrToStruct, StructValue, StringValue, PtrToString}

----------------------------------------------------------------------------
(* One record: the calls a caller makes *)

NoConc ==
    /\ pc = << >>
    /\ all = << >>
    /\ allRef = << >>
    /\ ret = << >>

NoValid ==
    /\ obj = NilPtr
    /\ verr = ""
    /\ vpanic = ""

InitRecord(types) ==
    /\ T \in types
    /\ raw = NilMap
    /\ fields = ZeroFields(T)
    /\ op = "new"
    /\ err = "nil"
    /\ doc = NoDoc
    /\ decErr = "none"
    /\ fresh = FALSE
    /\ mutated = FALSE
    /\ out = NoOut

Init ==
    /\ InitRecord(RecordTypes)
    /\ NoConc
    /\ NoValid

\* err := r.FromJSON(data, obj)
FromJSON ==
    \E data \in DocsOf[T], h \in Handles :
        /\ h = PtrToStruct \/ data = ObjectDoc(EmptyKV)
        /\ LET res == FromJSONResult(T, data, h, raw, fields)
           IN  /\ raw' = res.raw
               /\ fields' = res.fields
               /\ err' = res.err
               /\ decErr' = res.err
        /\ op' = "FromJSON"
        /\ doc' = data
        /\ fresh' = (raw = NilMap /\ fields = ZeroFields(T))
        /\ mutated' = FALSE
        /\ out' = NoOut
        /\ UNCHANGED << T, concVars, validVars >>

\* obj.Field = v
SetField ==
    \E f \in {g \in DOMAIN T : IsExported(T[g])} :
        \E v \in FieldValues(T[f].kind) \ {fields[f]} :
            /\ fields' = [fields EXCEPT ![f] = v]
            /\ op' = "Set"
            /\ err' = "nil"
            /\ mutated' = TRUE
            /\ out' = NoOut
            /\ UNCHANGED << T, raw, doc, decErr, fresh, concVars, validVars >>

\* out, err := r.ToJSON(obj)
ToJSON ==
    \E h \in Handles :
        /\ LET res == ToJSONResult(T, h, raw, fields)
           IN  /\ out' = res.out
               /\ err' = res.err
        /\ op' = "ToJSON"
        /\ UNCHANGED << T, raw, fields, doc, decErr, fresh, mutated, concVars, validVars >>

Next == FromJSON \/ SetField \/ ToJSON

Spec == Init /\ [][Next]_vars

\* the records of the structs of TestRetain_ToJSON_Ignore
IgnoreTypes == {Ignore, DashName, DashOmitEmpty}

InitIgnore ==
    /\ InitRecord(IgnoreTypes)
    /\ NoConc
    /\ NoValid

SpecIgnore == InitIgnore /\ [][Next]_vars

InitOmit ==
    /\ InitRecord(OmitTypes)
    /\ NoConc
    /\ NoValid

NextOmit == SetField \/ ToJSON

SpecOmit == InitOmit /\ [][NextOmit]_vars

----------------------------------------------------------------------------
(* Properties of one record *)

Visited == Range(forJSONField(T))

CanonicalName(f) == name(jsonTag(T[f]))

\* the members of a document that no declared field claims
UnknownOf(rt, d) == [k \in DOMAIN d.kv \ DeclaredNames(rt) |-> d.kv[k]]

Encoded == op = "ToJSON" /\ err = "nil"

Decoded == op = "FromJSON" /\ err = "nil"

\* field f is left out of the output
Omitted(f) == omitEmpty(jsonTag(T[f])) /\ isZero(fields[f])

\* the document a call returned, without where its members came from
Members(o) == [k \in DOMAIN o |-> o[k].json]

RoundTrippable(rt, d) ==
    \A f \in Range(forJSONField(rt)) :
        LET t == jsonTag(rt[f])
        IN  IF name(t) \in DOMAIN d.kv
            THEN /\ d.kv[name(t)] # "null"
                 /\ omitEmpty(t) => d.kv[name(t)] # MarshalValue(ZeroValue(rt[f].kind))
            ELSE omitEmpty(t)

C2_UpdatePreservesUnknowns ==
    (Encoded /\ decErr = "nil")
        => /\ \A k \in DOMAIN UnknownOf(T, doc) :
                  k \in DOMAIN out /\ out[k].json = doc.kv[k]
           /\ \A f \in Visited :
                  ~Omitted(f) =>
                      /\ CanonicalName(f) \in DOMAIN out
                      /\ out[CanonicalName(f)].json = MarshalValue(fields[f])

C2_Witness ==
    /\ Encoded /\ decErr = "nil" /\ mutated
    /\ T = Page
    /\ doc = ObjectDoc([k \in {"title", "slug", "icon"} |->
                          IF k = "icon" THEN "\"email\"" ELSE "\"a\""])
    /\ fields[3] = Str("b")
    /\ Members(out) = [k \in {"title", "slug", "icon"} |->
                          CASE k = "icon" -> "\"email\""
                            [] k = "slug" -> "\"b\""
                            [] k = "title" -> "\"a\""]

\* C3: after a successful decode the retained state is exactly the unknown
\* members of the document just decoded.
C3_DecodeReplacesRetained ==
    Decoded => raw.kv = UnknownOf(T, doc)

\* C4: a member that encode emits under the canonical name of a declared
\* field is that field's current value, never a retained fragment.
C4_DeclaredFieldsWin ==
    Encoded =>
        \A f \in Visited :
            CanonicalName(f) \in DOMAIN out =>
                out[CanonicalName(f)] =
                    [from |-> "field", json |-> MarshalValue(fields[f])]

\* C7: after a successful decode of a document without unknown keys the
\* retained state is the nil map.
C7_NoUnknownsMeansNil ==
    (Decoded /\ DOMAIN UnknownOf(T, doc) = {}) => raw = NilMap

\* C10: no key of the retained state is the canonical name of a declared
\* field.
C10_RetainedDisjointFromDeclared ==
    DOMAIN raw.kv \cap DeclaredNames(T) = {}

\* the exported fields whose tag is exactly "-"
IgnoredFields == {f \in DOMAIN T : IsExported(T[f]) /\ T[f].tag = "-"}

\* the fields tagged "-," or "-,omitempty"
DashFields == {f \in DOMAIN T : IsExported(T[f]) /\ T[f].tag \in {"-,", "-,omitempty"}}

\* C9: a call never writes a field tagged "-" from the document, keeps a
\* document key equal to the field's name as an unknown key, and never emits
\* the field's value; a field tagged "-," or "-,omitempty" is decoded from
\* the key "-" and encoded under the key "-".
C9_IgnoreModifiers ==
    [][ /\ op' = "FromJSON" =>
            /\ \A f \in IgnoredFields :
                   /\ fields'[f] = fields[f]
                   /\ (err' = "nil" /\ T[f].name \in DOMAIN doc'.kv) =>
                          /\ T[f].name \in DOMAIN raw'.kv
                          /\ raw'.kv[T[f].name] = doc'.kv[T[f].name]
            /\ \A f \in DashFields :
                   (err' = "nil" /\ "-" \in DOMAIN doc'.kv /\ doc'.kv["-"] # "null") =>
                          /\ Quote(fields'[f].s) = doc'.kv["-"]
                          /\ "-" \notin DOMAIN raw'.kv
        /\ (op' = "ToJSON" /\ err' = "nil") =>
            /\ \A f \in IgnoredFields :
                   T[f].name \in DOMAIN out' =>
                       /\ T[f].name \in DOMAIN raw.kv
                       /\ out'[T[f].name] = [from |-> "retained", json |-> raw.kv[T[f].name]]
            /\ \A f \in DashFields :
                   IF omitEmpty(jsonTag(T[f])) /\ fields[f] = Str("")
                   THEN "-" \in DOMAIN out' => out'["-"].from = "retained"
                   ELSE /\ "-" \in DOMAIN out'
                        /\ out'["-"] = [from |-> "field", json |-> Quote(fields[f].s)]
      ]_vars

C9_Witness ==
    /\ T = Ignore
    /\ Encoded
    /\ fields[1] = Str("b")
    /\ doc = ObjectDoc([k \in {"IgnoreField"} |-> "\"email\""])
    /\ Members(out) = [k \in {"IgnoreField"} |-> "\"email\""]

----------------------------------------------------------------------------
(* Properties of ToJSON on a record without retained state *)

\* empty as the encoding/json package has it for omitempty: a zero scalar,
\* a slice or map of length 0 (nil or not), an array of length 0
EmptyByKind(v) ==
    CASE v.k = "string" -> v.s = ""
      [] v.k = "int" -> v.n = 0
      [] v.k = "bool" -> v.b = FALSE
      [] v.k = "slice" -> Len(v.elems) = 0
      [] v.k = "map" -> v.entries = {}
      [] v.k = "array" -> Len(v.arr) = 0
      [] OTHER -> FALSE

\* C8: with no retained state, a field is left out of the output exactly
\* when it carries omitempty and is a zero scalar, a slice or map of length
\* 0 or an array of length 0, as encoding/json does for the same struct.
C8_OmitEmptyPerKind ==
    (Encoded /\ raw = NilMap) =>
        \A f \in Visited :
            (CanonicalName(f) \in DOMAIN out)
                <=> ~(omitEmpty(jsonTag(T[f])) /\ EmptyByKind(fields[f]))

----------------------------------------------------------------------------
(* Retainable and MustRetainable *)

\* fmt's %T of obj
TypeName(h) ==
    (IF h.ptr THEN "*" ELSE "")
        \o (IF h.elem = "string" THEN "jsonobj.Text" ELSE "jsonobj.T")

\* the callback of verifyNoDuplicateFieldNames over the visited fields, with
\* the names seen so far
RECURSIVE DuplicateFrom(_, _, _)
DuplicateFrom(rt, visit, exists) ==
    IF visit = << >> THEN ""
    ELSE LET nm == name(jsonTag(rt[Head(visit)]))
         IN  IF nm \in exists THEN "duplicate JSON field " \o Quote(nm)
             ELSE DuplicateFrom(rt, Tail(visit), exists \cup {nm})

verifyNoDuplicateFieldNames(rt) == DuplicateFrom(rt, forJSONField(rt), {})

\* for _, t := range jt.tag[1:]
RECURSIVE UnsupportedToken(_, _)
UnsupportedToken(jt, i) ==
    IF i > Len(jt.tag) THEN ""
    ELSE IF jt.tag[i] # "" /\ jt.tag[i] # "omitempty"
         THEN "field " \o Quote(name(jt)) \o " has unsupported tag " \o Quote(jt.tag[i])
         ELSE UnsupportedToken(jt, i + 1)

RECURSIVE UnsupportedFrom(_, _)
UnsupportedFrom(rt, visit) ==
    IF visit = << >> THEN ""
    ELSE LET jt == jsonTag(rt[Head(visit)])
             e == IF Len(jt.tag) <= 1 THEN "" ELSE UnsupportedToken(jt, 2)
         IN  IF e # "" THEN e ELSE UnsupportedFrom(rt, Tail(visit))

verifyNoUnsupportedTags(rt) == UnsupportedFrom(rt, forJSONField(rt))

\* Retainable checking the tags before the names
RetainableBodyTagsFirst(rt, h) ==
    IF ~ensureStruct(h, TRUE) THEN "requires struct pointer"
    ELSE LET u == verifyNoUnsupportedTags(rt)
         IN  IF u # "" THEN u ELSE verifyNoDuplicateFieldNames(rt)

\* the body of Retainable: retErr before the deferred function wraps it
RetainableBody(rt, h) ==
    IF ~ensureStruct(h, TRUE) THEN "requires struct pointer"
    ELSE LET d == verifyNoDuplicateFieldNames(rt)
         IN  IF d # "" THEN d ELSE verifyNoUnsupportedTags(rt)

\* Retainable(obj): the error returned, "" for nil
Retainable(rt, h) ==
    LET retErr == RetainableBody(rt, h)
    IN  IF retErr # "" THEN TypeName(h) \o " not Retainable: " \o retErr ELSE ""

\* MustRetainable(obj): the error it panics with, or that it returns obj
MustRetainable(rt, h) ==
    LET e == Retainable(rt, h) IN IF e # "" THEN e ELSE "returns obj"

\* struct declarations of at most MaxFields fields with distinct Go names
StructDecls ==
    {rt \in UNION {[1..n -> FieldDecls] : n \in 0..MaxFields} :
        \A i, j \in DOMAIN rt : i # j => rt[i].name # rt[j].name}

ValidHandles == {PtrToStruct, StructValue, NilPtr, StringValue, PtrToString}

InitValid ==
    /\ T \in StructDecls
    /\ obj \in ValidHandles
    /\ obj.elem # "struct" => T = << >>
    /\ verr = "unset"
    /\ vpanic = "unset"
    /\ raw = NilMap
    /\ fields = << >>
    /\ op = "new"
    /\ err = "nil"
    /\ doc = NoDoc
    /\ decErr = "none"
    /\ fresh = FALSE
    /\ mutated = FALSE
    /\ out = NoOut
    /\ NoConc

\* err := Retainable(obj)
CallRetainable ==
    /\ verr' = Retainable(T, obj)
    /\ op' = "Retainable"
    /\ UNCHANGED << T, raw, fields, err, doc, decErr, fresh, mutated, out,
                    concVars, obj, vpanic >>

\* MustRetainable(obj), recovering the panic
CallMustRetainable ==
    /\ vpanic' = MustRetainable(T, obj)
    /\ op' = "MustRetainable"
    /\ UNCHANGED << T, raw, fields, err, doc, decErr, fresh, mutated, out,
                    concVars, obj, verr >>

NextValid == CallRetainable \/ CallMustRetainable

SpecValid == InitValid /\ [][NextValid]_vars

\* the visited fields of T by position, their names and tags
VFields == forJSONField(T)
VName(i) == name(jsonTag(T[VFields[i]]))
VTag(i) == Split(T[VFields[i]].tag)

\* positions whose name an earlier position has; positions and tokens with
\* a modifier that is neither empty nor omitempty
Repeats == {j \in DOMAIN VFields : \E i \in 1..(j - 1) : VName(i) = VName(j)}
BadTokens(i) == {p \in 2..Len(VTag(i)) : VTag(i)[p] \notin {"", "omitempty"}}
BadFields == {i \in DOMAIN VFields : BadTokens(i) # {}}

Least(xs) == CHOOSE x \in xs : \A y \in xs : x <= y

\* what C6 says Retainable reports
ExpectedError ==
    IF ~(obj.ptr /\ obj.elem = "struct")
    THEN TypeName(obj) \o " not Retainable: requires struct pointer"
    ELSE IF Repeats # {}
    THEN TypeName(obj) \o " not Retainable: duplicate JSON field \""
            \o VName(Least(Repeats)) \o "\""
    ELSE IF BadFields # {}
    THEN LET i == Least(BadFields)
         IN  TypeName(obj) \o " not Retainable: field \"" \o VName(i)
                \o "\" has unsupported tag \"" \o VTag(i)[Least(BadTokens(i))] \o "\""
    ELSE ""

\* C6: Retainable returns nil exactly for a pointer to a struct without
\* duplicate names and without unsupported modifiers; otherwise it reports,
\* in this order, the handle kind, the first name seen twice, the first
\* unsupported modifier; MustRetainable panics with that error exactly then.
C6_Validation ==
    /\ verr # "unset" =>
          /\ verr = ExpectedError
          /\ (verr = "") <=> (obj = PtrToStruct /\ Repeats = {} /\ BadFields = {})
    /\ vpanic # "unset" =>
          IF ExpectedError = "" THEN vpanic = "returns obj" ELSE vpanic = ExpectedError

C6_Witness ==
    /\ obj = PtrToStruct
    /\ T = << Fld("Name2", "name", "string"), Fld("Opt", "name,omitempty,string", "string") >>
    /\ verr = "*jsonobj.T not Retainable: duplicate JSON field \"name\""
    /\ vpanic = verr

----------------------------------------------------------------------------
(* Concurrent ToJSON calls on one record *)

Procs == 1..NumProcs

Idle == [at |-> "idle", keys |-> {}, f |-> 0]

\* all := r.raw: `all` refers to the record's own map
MakeAllAliased(p) == "raw"

\* all := make(map[string]any, len(r.raw)): the map `all` refers to is the
\* call's own
MakeAll(p) == "own"

\* the map call p reads through `all`
AllOf(p) == IF allRef[p] = "own" THEN all[p] ELSE CopyOf(raw)

\* the retained states a successful decode into a zero-valued record leaves
RetainedStates(rt) == {NilIfEmpty(MkMap(UnknownOf(rt, d))) : d \in DocsOf[rt]}

FieldStates(rt) ==
    {fv \in [DOMAIN rt -> UNION {FieldValues(rt[f].kind) : f \in DOMAIN rt}] :
        \A f \in DOMAIN rt : fv[f] \in FieldValues(rt[f].kind)}

InitConc ==
    /\ T \in {Post, Ignore}
    /\ raw \in RetainedStates(T)
    /\ fields \in FieldStates(T)
    /\ pc = [p \in Procs |-> Idle]
    /\ all = [p \in Procs |-> NoOut]
    /\ allRef = [p \in Procs |-> "own"]
    /\ ret = [p \in Procs |-> NoOut]
    /\ op = "new"
    /\ err = "nil"
    /\ doc = NoDoc
    /\ decErr = "none"
    /\ fresh = FALSE
    /\ mutated = FALSE
    /\ out = NoOut
    /\ NoValid

\* the call starts: ensureStruct, make(map[string]any, len(r.raw)), and the
\* range over r.raw begins
Begin(p) ==
    /\ pc[p].at \in {"idle", "done"}
    /\ allRef' = [allRef EXCEPT ![p] = MakeAll(p)]
    /\ all' = [all EXCEPT ![p] = NoOut]
    /\ pc' = [pc EXCEPT ![p] = [at |-> "running", keys |-> DOMAIN raw.kv, f |-> 1]]
    /\ UNCHANGED << recVars, ret, validVars >>

\* all[k] = x by call p: a store into the map `all` refers to
Store(p, key, x) ==
    IF allRef[p] = "own"
    THEN /\ all' = [all EXCEPT ![p] = Put(all[p], key, x)]
         /\ raw' = raw
    ELSE /\ all' = all
         /\ raw' = MkMap(Put(raw.kv, key,
                             IF x.from = "retained" THEN x.rawmsg ELSE MarshalValue(x.val)))

\* one iteration of for k, v := range r.raw { all[k] = v }
CopyStep(p) ==
    /\ pc[p].at = "running"
    /\ \E k \in pc[p].keys :
          /\ IF k \in DOMAIN raw.kv
             THEN Store(p, k, FromRetained(raw.kv[k]))
             ELSE UNCHANGED << all, raw >>
          /\ pc' = [pc EXCEPT ![p].keys = @ \ {k}]
    /\ UNCHANGED << T, fields, op, err, doc, decErr, fresh, mutated, out,
                    allRef, ret, validVars >>

\* one iteration of forJSONField: the callback of ToJSON on the next field
FieldStep(p) ==
    /\ pc[p].at = "running" /\ pc[p].keys = {}
    /\ pc[p].f <= Len(forJSONField(T))
    /\ LET f == forJSONField(T)[pc[p].f]
           t == jsonTag(T[f])
       IN  IF omitEmpty(t) /\ isZero(fields[f])
           THEN UNCHANGED << all, raw >>
           ELSE Store(p, name(t), FromField(fields[f]))
    /\ pc' = [pc EXCEPT ![p].f = @ + 1]
    /\ UNCHANGED << T, fields, op, err, doc, decErr, fresh, mutated, out,
                    allRef, ret, validVars >>

\* return json.Marshal(all)
Return(p) ==
    /\ pc[p].at = "running" /\ pc[p].keys = {}
    /\ pc[p].f > Len(forJSONField(T))
    /\ ret' = [ret EXCEPT ![p] = MarshalAll(AllOf(p))]
    /\ pc' = [pc EXCEPT ![p] = [at |-> "done", keys |-> {}, f |-> 0]]
    /\ UNCHANGED << recVars, all, allRef, validVars >>

NextConc == \E p \in Procs : Begin(p) \/ CopyStep(p) \/ FieldStep(p) \/ Return(p)

SpecConc == InitConc /\ [][NextConc]_vars

\* C5: no step of interleaved ToJSON calls changes the retained state or a
\* field, and every call returns the document a call on its own returns.
C5_ConcurrentEncode ==
    [][ /\ raw' = raw
        /\ fields' = fields
        /\ \A p \in Procs :
              pc'[p].at = "done" =>
                  ret'[p] = ToJSONResult(T, StructValue, raw, fields).out
      ]_vars

\* every call has returned, from a record with two retained keys of which a
\* field overlays none
C5_Witness ==
    /\ T = Ignore
    /\ DOMAIN raw.kv = {"IgnoreField", "icon"}
    /\ \A p \in Procs : pc[p].at = "done" /\ DOMAIN ret[p] = {"IgnoreField", "icon"}

====
